---- MODULE Spec2Model ----
(***************************************************************************)
(* Model of the CI helper scripts of jsimck/test-changeset:                *)
(*   scripts/get-tags.js            getAllTags                             *)
(*   (ES module variant)            getAllTags                             *)
(*   scripts/get-tags-advanced.js   getAllTagsAdvanced, createReleases,    *)
(*                                  extractChangelogForVersion,            *)
(*                                  escapeRegex, isPrerelease              *)
(* Strings are sequences of one-character strings, so that the regular     *)
(* expressions of the scripts are modelled by what they accept.            *)
(***************************************************************************)
EXTENDS Integers, Sequences, FiniteSets, TLC

VARIABLES
    entry,              \* which entry point this run executes
    pc,                 \* position inside the entry point
    exitCode,           \* process exit status: -1 while running, then 0 or 1
    fatal,              \* cause reported by the terminating error path ("" if none)
    arg,                \* input of a function run on its own
    ret,                \* its return value
    lineNo,             \* extractChangelogForVersion: index of the next line
    inVersionSection,   \* extractChangelogForVersion: the collecting flag
    releaseNotes,       \* extractChangelogForVersion: collected lines
    opened,             \* extractChangelogForVersion: lines that opened collection
    token,              \* process.env.GITHUB_TOKEN is set
    rootManifest,       \* root package.json: status and resolved workspace packages
    repoTags,           \* tags pointing at HEAD in the repository
    tags,               \* createReleases: the tag listing
    packagePaths,       \* createReleases: discovered package manifests
    idx,                \* createReleases: index of the tag being processed
    pending,            \* createReleases: the createRelease request about to be sent
    calls,              \* createRelease calls made so far, with their responses
    outcomes,           \* per-tag outcomes logged so far
    options,            \* getAllTagsAdvanced: parsed options
    failedQueries,      \* version-control queries that failed in this run
    result              \* tag enumeration: the result object

vars == <<entry, pc, exitCode, fatal, arg, ret, lineNo, inVersionSection,
          releaseNotes, opened, token, rootManifest, repoTags, tags,
          packagePaths, idx, pending, calls, outcomes, options,
          failedQueries, result>>

scanVars == <<lineNo, inVersionSection, releaseNotes, opened>>
envVars == <<token, rootManifest, repoTags>>
relVars == <<tags, packagePaths, idx, pending, calls, outcomes>>
tagVars == <<options, failedQueries, result>>

-----------------------------------------------------------------------------
(* Bounds of the model *)

MaxTagLen == 4
MaxPieces == 3
MaxLines == 3
MaxTags == 2
MaxPkgs == 2

-----------------------------------------------------------------------------
(* Strings *)

Upper == <<"A","B","C","D","E","F","G","H","I","J","K","L","M",
           "N","O","P","Q","R","S","T","U","V","W","X","Y","Z">>
Lower == <<"a","b","c","d","e","f","g","h","i","j","k","l","m",
           "n","o","p","q","r","s","t","u","v","w","x","y","z">>

ToLower(c) ==
    IF \E k \in 1..Len(Upper) : Upper[k] = c
    THEN Lower[CHOOSE k \in 1..Len(Upper) : Upper[k] = c]
    ELSE c

IsSpace(c) == c \in {" ", "\t", "\n", "\r"}

\* s occurs in t starting at position p
StartsAt(t, p, s) ==
    /\ p >= 1
    /\ p + Len(s) - 1 <= Len(t)
    /\ \A k \in 1..Len(s) : t[p + k - 1] = s[k]

Contains(t, s) == \E p \in 1..(Len(t) + 1) : StartsAt(t, p, s)

RECURSIVE Concat(_)
Concat(ss) == IF ss = <<>> THEN <<>> ELSE Head(ss) \o Concat(Tail(ss))

\* Array.prototype.join('\n')
RECURSIVE JoinLines(_)
JoinLines(ls) ==
    IF ls = <<>> THEN <<>>
    ELSE IF Len(ls) = 1 THEN ls[1]
    ELSE ls[1] \o <<"\n">> \o JoinLines(Tail(ls))

\* String.prototype.trim()
RECURSIVE TrimStart(_)
TrimStart(s) ==
    IF s # <<>> /\ IsSpace(Head(s)) THEN TrimStart(Tail(s)) ELSE s

RECURSIVE TrimEnd(_)
TrimEnd(s) ==
    IF s # <<>> /\ IsSpace(s[Len(s)]) THEN TrimEnd(SubSeq(s, 1, Len(s) - 1)) ELSE s

Trim(s) == TrimEnd(TrimStart(s))

SeqsUpTo(S, n) == UNION {[1..k -> S] : k \in 0..n}
NonEmptySeqsUpTo(S, n) == UNION {[1..k -> S] : k \in 1..n}
Distinct(s) == \A a, b \in 1..Len(s) : a # b => s[a] # s[b]

-----------------------------------------------------------------------------
(* Tag parsing: tag.match(/^(.+)@(.+)$/) *)

NoParse == [ok |-> FALSE, name |-> <<>>, version |-> <<>>]

\* The greedy first group is tried longest first: k is the position the '@'
\* of the pattern is tried at; both groups need at least one character.
RECURSIVE TrySplit(_, _)
TrySplit(tag, k) ==
    IF k < 2 THEN NoParse
    ELSE IF k < Len(tag) /\ tag[k] = "@"
         THEN [ok |-> TRUE, name |-> SubSeq(tag, 1, k - 1),
               version |-> SubSeq(tag, k + 1, Len(tag))]
         ELSE TrySplit(tag, k - 1)

RECURSIVE FirstSplit(_, _)
FirstSplit(tag, k) ==
    IF k >= Len(tag) THEN NoParse
    ELSE IF k >= 2 /\ tag[k] = "@"
         THEN [ok |-> TRUE, name |-> SubSeq(tag, 1, k - 1),
               version |-> SubSeq(tag, k + 1, Len(tag))]
         ELSE FirstSplit(tag, k + 1)

\* faulty variant: a lazy first group, /^(.+?)@(.+)$/
ParseTagLazy(tag) == FirstSplit(tag, 2)

ParseTag(tag) == TrySplit(tag, Len(tag))

-----------------------------------------------------------------------------
(* isPrerelease: /-(alpha|beta|rc|pre)/i.test(version) *)

Markers == { <<"a","l","p","h","a">>, <<"b","e","t","a">>,
             <<"r","c">>, <<"p","r","e">> }

\* the pattern matched at position p, letters compared case-insensitively
MarkerAt(v, p) ==
    /\ p <= Len(v)
    /\ v[p] = "-"
    /\ \E m \in Markers :
          /\ p + Len(m) <= Len(v)
          /\ \A k \in 1..Len(m) : ToLower(v[p + k]) = m[k]

\* faulty variant: the i flag dropped
MarkerAtCaseSensitive(v, p) ==
    /\ p <= Len(v)
    /\ v[p] = "-"
    /\ \E m \in Markers :
          /\ p + Len(m) <= Len(v)
          /\ \A k \in 1..Len(m) : v[p + k] = m[k]

isPrereleaseCaseSensitive(version) ==
    \E p \in 1..Len(version) : MarkerAtCaseSensitive(version, p)

isPrerelease(version) == \E p \in 1..Len(version) : MarkerAt(version, p)

-----------------------------------------------------------------------------
(* extractChangelogForVersion, escapeRegex *)

RegexMeta == {".", "*", "+", "?", "^", "$", "{", "}", "(", ")", "|", "[", "]", "\\"}

\* string.replace(/[.*+?^${}()|[\]\\]/g, '\\$&')
RECURSIVE escapeRegex(_)
escapeRegex(string) ==
    IF string = <<>> THEN <<>>
    ELSE (IF Head(string) \in RegexMeta THEN <<"\\", Head(string)>>
          ELSE <<Head(string)>>) \o escapeRegex(Tail(string))

\* The pattern source compiled by new RegExp: an escaped character stands
\* for itself, an unescaped dot for any character, any other character for
\* itself.
RECURSIVE PatternTokens(_)
PatternTokens(src) ==
    IF src = <<>> THEN <<>>
    ELSE IF Head(src) = "\\" /\ Len(src) >= 2
         THEN <<[any |-> FALSE, ch |-> src[2]]>> \o PatternTokens(SubSeq(src, 3, Len(src)))
    ELSE IF Head(src) = "."
         THEN <<[any |-> TRUE, ch |-> "."]>> \o PatternTokens(Tail(src))
    ELSE <<[any |-> FALSE, ch |-> Head(src)]>> \o PatternTokens(Tail(src))

TokensAt(line, p, toks) ==
    /\ p + Len(toks) - 1 <= Len(line)
    /\ \A k \in 1..Len(toks) : toks[k].any \/ line[p + k - 1] = toks[k].ch

\* line.match(new RegExp(`^##\\s+\\[?${escapeRegex(version)}\\]?`)):
\* n is the number of whitespace characters taken by \s+; the trailing
\* optional bracket and the missing end anchor accept any remainder.
VersionHeader(line, version) ==
    LET toks == PatternTokens(escapeRegex(version))
    IN /\ StartsAt(line, 1, <<"#", "#">>)
       /\ \E n \in 1..Len(line) :
             /\ n + 2 <= Len(line)
             /\ \A j \in 3..(n + 2) : IsSpace(line[j])
             /\ \/ TokensAt(line, n + 3, toks)
                \/ /\ n + 3 <= Len(line)
                   /\ line[n + 3] = "["
                   /\ TokensAt(line, n + 4, toks)

\* line.match(/^##\s+/)
NextHeader(line) ==
    /\ StartsAt(line, 1, <<"#", "#">>)
    /\ Len(line) >= 3
    /\ IsSpace(line[3])

ReleasePrefix == <<"R", "e", "l", "e", "a", "s", "e", " ">>

\* faulty variant: the section text returned without the fallback
NotesOrFallbackNone(notes, version) == Trim(JoinLines(notes))

\* releaseNotes.join('\n').trim() || `Release ${version}`
NotesOrFallback(notes, version) ==
    LET text == Trim(JoinLines(notes))
    IN IF text # <<>> THEN text ELSE ReleasePrefix \o version

\* One iteration of the loop over the lines; stop models the break.
ScanLine(st, line, version) ==
    IF VersionHeader(line, version)
    THEN [st EXCEPT !.inVersionSection = TRUE, !.openedHere = TRUE]
    ELSE IF st.inVersionSection /\ NextHeader(line)
    THEN [st EXCEPT !.stop = TRUE, !.openedHere = FALSE]
    ELSE IF st.inVersionSection
    THEN [st EXCEPT !.releaseNotes = Append(@, line), !.openedHere = FALSE]
    ELSE [st EXCEPT !.openedHere = FALSE]

ScanStart ==
    [inVersionSection |-> FALSE, releaseNotes |-> <<>>, stop |-> FALSE,
     openedHere |-> FALSE]

RECURSIVE ScanFrom(_, _, _, _)
ScanFrom(st, lines, k, version) ==
    IF k > Len(lines) \/ st.stop THEN st
    ELSE ScanFrom(ScanLine(st, lines[k], version), lines, k + 1, version)

\* the function on the lines of a readable changelog
ExtractFromLines(lines, version) ==
    NotesOrFallback(ScanFrom(ScanStart, lines, 1, version).releaseNotes, version)

-----------------------------------------------------------------------------
(* Inputs of the functions run on their own *)

TagAlphabet == {"a", "@", "/"}
TagInputs == NonEmptySeqsUpTo(TagAlphabet, MaxTagLen)

VersionPieces ==
    { <<"1">>, <<".">>, <<"-">>, <<"x">>, <<"r", "c">>, <<"R", "C">>,
      <<"a", "l", "p", "h", "a">>, <<"B", "e", "t", "a">>, <<"p", "r", "e">> }
VersionInputs == {Concat(ps) : ps \in NonEmptySeqsUpTo(VersionPieces, MaxPieces)}

H2 == <<"#", "#">>
V100 == <<"1", ".", "0", ".", "0">>
V090 == <<"0", ".", "9", ".", "0">>
VRC1 == V100 \o <<"-", "r", "c", ".", "1">>

LineInputs ==
    { H2 \o <<" ">> \o V100,
      H2 \o <<" ", "[">> \o V100 \o <<"]">>,
      H2 \o <<" ">> \o VRC1,
      H2 \o <<" ">> \o V090,
      H2 \o <<" ", "1", "x", "0", ".", "0">>,
      <<"-", " ", "f", "i", "x">>,
      <<>> }
DocInputs == SeqsUpTo(LineInputs, MaxLines)
ExtractVersions == {V100, V090, VRC1}

FnIdle == arg = <<>> /\ ret = <<>>
ScanIdle == lineNo = 0 /\ inVersionSection = FALSE /\ releaseNotes = <<>> /\ opened = {}
EnvIdle ==
    /\ token = FALSE
    /\ rootManifest = [status |-> "missing", pkgs |-> <<>>]
    /\ repoTags = <<>>
RelIdle ==
    /\ tags = <<>> /\ packagePaths = <<>> /\ idx = 0 /\ pending = <<>>
    /\ calls = <<>> /\ outcomes = <<>>
TagIdle == options = <<>> /\ failedQueries = {} /\ result = <<>>
Running == exitCode = -1 /\ fatal = ""

InitParse ==
    /\ entry = "parseTag" /\ pc = "call"
    /\ arg \in TagInputs /\ ret = <<>>
    /\ ScanIdle /\ EnvIdle /\ RelIdle /\ TagIdle /\ Running

InitIsPrerelease ==
    /\ entry = "isPrerelease" /\ pc = "call"
    /\ arg \in VersionInputs /\ ret = <<>>
    /\ ScanIdle /\ EnvIdle /\ RelIdle /\ TagIdle /\ Running

InitExtract ==
    /\ entry = "extractChangelogForVersion" /\ pc = "scan"
    /\ arg \in [lines : DocInputs, version : ExtractVersions] /\ ret = <<>>
    /\ lineNo = 1 /\ inVersionSection = FALSE /\ releaseNotes = <<>> /\ opened = {}
    /\ EnvIdle /\ RelIdle /\ TagIdle /\ Running

-----------------------------------------------------------------------------
(* The functions run on their own *)

\* const match = tag.match(/^(.+)@(.+)$/)
CallParseTag ==
    /\ entry = "parseTag" /\ pc = "call"
    /\ ret' = ParseTag(arg)
    /\ pc' = "done"
    /\ UNCHANGED <<entry, exitCode, fatal, arg, scanVars, envVars, relVars, tagVars>>

CallIsPrerelease ==
    /\ entry = "isPrerelease" /\ pc = "call"
    /\ ret' = isPrerelease(arg)
    /\ pc' = "done"
    /\ UNCHANGED <<entry, exitCode, fatal, arg, scanVars, envVars, relVars, tagVars>>

\* one iteration of for (const line of lines)
ExtractLine ==
    /\ entry = "extractChangelogForVersion" /\ pc = "scan"
    /\ lineNo <= Len(arg.lines)
    /\ LET st == ScanLine([inVersionSection |-> inVersionSection,
                           releaseNotes |-> releaseNotes,
                           stop |-> FALSE, openedHere |-> FALSE],
                          arg.lines[lineNo], arg.version)
       IN /\ inVersionSection' = st.inVersionSection
          /\ releaseNotes' = st.releaseNotes
          /\ opened' = IF st.openedHere THEN opened \cup {lineNo} ELSE opened
          /\ pc' = IF st.stop THEN "join" ELSE "scan"
          /\ lineNo' = IF st.stop THEN lineNo ELSE lineNo + 1
    /\ UNCHANGED <<entry, exitCode, fatal, arg, ret, envVars, relVars, tagVars>>

\* return releaseNotes.join('\n').trim() || `Release ${version}`
ExtractReturn ==
    /\ entry = "extractChangelogForVersion"
    /\ pc = "join" \/ (pc = "scan" /\ lineNo > Len(arg.lines))
    /\ ret' = NotesOrFallback(releaseNotes, arg.version)
    /\ pc' = "done"
    /\ UNCHANGED <<entry, exitCode, fatal, arg, scanVars, envVars, relVars, tagVars>>

-----------------------------------------------------------------------------
(* createReleases: environment *)

NameApp == <<"a", "p", "p">>
NameLib == <<"@", "s", "/", "l", "i", "b">>
At == <<"@">>

NoChangelog == [exists |-> FALSE, readable |-> FALSE, lines |-> <<>>]
BadChangelog == [exists |-> TRUE, readable |-> FALSE, lines |-> <<>>]
AppChangelog ==
    [exists |-> TRUE, readable |-> TRUE,
     lines |-> << H2 \o <<" ">> \o V100,
                  <<"-", " ", "f", "i", "x">>,
                  <<>>,
                  H2 \o <<" ">> \o V090,
                  <<"-", " ", "o", "l", "d">> >>]

\* package.json files that the workspace patterns can resolve to, each with
\* the CHANGELOG.md beside it
PackageFiles ==
    { [manifestOk |-> TRUE, name |-> NameApp, version |-> V100, changelog |-> AppChangelog],
      [manifestOk |-> TRUE, name |-> NameApp, version |-> VRC1, changelog |-> NoChangelog],
      [manifestOk |-> TRUE, name |-> NameLib, version |-> V100, changelog |-> BadChangelog],
      [manifestOk |-> FALSE, name |-> <<>>, version |-> <<>>, changelog |-> NoChangelog] }

TagNames ==
    { <<"v">> \o V100,
      NameApp \o At \o V100,
      NameApp \o At \o VRC1,
      NameLib \o At \o V100 }

\* git lists each tag name once
TagListings == {ts \in SeqsUpTo(TagNames, MaxTags) : Distinct(ts)}

RootManifests ==
    { [status |-> "missing", pkgs |-> <<>>], [status |-> "malformed", pkgs |-> <<>>] }
    \cup [status : {"ok"}, pkgs : SeqsUpTo(PackageFiles, MaxPkgs)]

\* what octokit.rest.repos.createRelease resolves or rejects with
Responses ==
    { [ok |-> TRUE, status |-> 201, alreadyExists |-> FALSE],
      [ok |-> FALSE, status |-> 422, alreadyExists |-> TRUE],
      [ok |-> FALSE, status |-> 422, alreadyExists |-> FALSE],
      [ok |-> FALSE, status |-> 500, alreadyExists |-> TRUE] }

InitCreateReleases ==
    /\ entry = "createReleases" /\ pc = "import"
    /\ token \in BOOLEAN
    /\ rootManifest \in RootManifests
    /\ repoTags \in TagListings
    /\ FnIdle /\ ScanIdle /\ RelIdle /\ TagIdle /\ Running

-----------------------------------------------------------------------------
(* createReleases *)

\* packagePaths.find(packagePath => { const pkg = JSON.parse(readFileSync);
\*   return pkg.name === packageName && pkg.version === version })
\* over the paths from position k on; reading a manifest may throw.
RECURSIVE FindFrom(_, _, _, _)
FindFrom(pkgs, k, packageName, version) ==
    IF k > Len(pkgs) THEN [kind |-> "none", index |-> 0]
    ELSE IF ~pkgs[k].manifestOk THEN [kind |-> "throw", index |-> k]
    ELSE IF pkgs[k].name = packageName /\ pkgs[k].version = version
         THEN [kind |-> "found", index |-> k]
         ELSE FindFrom(pkgs, k + 1, packageName, version)

RECURSIVE FindNameFrom(_, _, _, _)
FindNameFrom(pkgs, k, packageName, version) ==
    IF k > Len(pkgs) THEN [kind |-> "none", index |-> 0]
    ELSE IF ~pkgs[k].manifestOk THEN [kind |-> "throw", index |-> k]
    ELSE IF pkgs[k].name = packageName
         THEN [kind |-> "found", index |-> k]
         ELSE FindNameFrom(pkgs, k + 1, packageName, version)

\* faulty variant: the version comparison dropped
FindPackageByName(pkgs, packageName, version) == FindNameFrom(pkgs, 1, packageName, version)

FindPackage(pkgs, packageName, version) == FindFrom(pkgs, 1, packageName, version)

\* `Release ${version} of ${packageName}`
DefaultNotes(packageName, version) ==
    ReleasePrefix \o version \o <<" ", "o", "f", " ">> \o packageName

\* the argument of octokit.rest.repos.createRelease; matchingPackage is the
\* position in packagePaths of the manifest the tag matched
Request(tag, packageName, version, notes, k) ==
    [tag_name |-> tag,
     name |-> packageName \o <<" ">> \o version,
     body |-> notes,
     draft |-> FALSE,
     prerelease |-> isPrerelease(version),
     matchingPackage |-> k]

\* faulty variant: every failure reported as an error
ReleaseOutcomeNoConflict(resp) == IF resp.ok THEN "created" ELSE "error"

\* then / catch of the createRelease call
ReleaseOutcome(resp) ==
    IF resp.ok THEN "created"
    ELSE IF resp.status = 422 /\ resp.alreadyExists THEN "warning"
    ELSE "error"

\* catch (error) { console.error(...); process.exit(1) }
Fatal(cause) ==
    /\ pc' = "done"
    /\ exitCode' = 1
    /\ fatal' = cause

crFrame == <<entry, arg, ret, scanVars, envVars, tagVars>>

\* const { getOctokit, context } = await import('@actions/github')
CRImport ==
    /\ entry = "createReleases" /\ pc = "import"
    /\ \/ pc' = "token" /\ UNCHANGED <<exitCode, fatal>>
       \/ Fatal("import")
    /\ UNCHANGED <<crFrame, relVars>>

\* if (!token) { console.error(...); process.exit(1) }
CRToken ==
    /\ entry = "createReleases" /\ pc = "token"
    /\ IF token
       THEN pc' = "revParse" /\ UNCHANGED <<exitCode, fatal>>
       ELSE Fatal("token")
    /\ UNCHANGED <<crFrame, relVars>>

\* execSync('git rev-parse HEAD')
CRRevParse ==
    /\ entry = "createReleases" /\ pc = "revParse"
    /\ \/ pc' = "tagsAt" /\ UNCHANGED <<exitCode, fatal>>
       \/ Fatal("git")
    /\ UNCHANGED <<crFrame, relVars>>

\* execSync(`git tag --points-at ${currentCommit}`), the early return on
\* no tags, and the split into the tag listing
CRTagsAt ==
    /\ entry = "createReleases" /\ pc = "tagsAt"
    /\ \/ /\ repoTags = <<>>
          /\ pc' = "done" /\ exitCode' = 0
          /\ UNCHANGED <<fatal, tags>>
       \/ /\ repoTags # <<>>
          /\ tags' = repoTags
          /\ pc' = "rootManifest"
          /\ UNCHANGED <<exitCode, fatal>>
       \/ Fatal("git") /\ UNCHANGED tags
    /\ UNCHANGED <<crFrame, packagePaths, idx, pending, calls, outcomes>>

\* faulty variant: an unreadable root manifest taken as one without workspaces
CRWorkspacesLenient ==
    /\ entry = "createReleases" /\ pc = "rootManifest"
    /\ packagePaths' = IF rootManifest.status = "ok" THEN rootManifest.pkgs ELSE <<>>
    /\ idx' = 1
    /\ pc' = "tag"
    /\ UNCHANGED <<exitCode, fatal>>
    /\ UNCHANGED <<entry, arg, ret, scanVars, envVars, tagVars>>
    /\ UNCHANGED <<tags, pending, calls, outcomes>>

\* JSON.parse(fs.readFileSync('package.json', 'utf8')), then the glob of
\* every workspace pattern
CRWorkspaces ==
    /\ entry = "createReleases" /\ pc = "rootManifest"
    /\ IF rootManifest.status = "ok"
       THEN /\ packagePaths' = rootManifest.pkgs
            /\ idx' = 1
            /\ pc' = "tag"
            /\ UNCHANGED <<exitCode, fatal>>
       ELSE Fatal("rootManifest") /\ UNCHANGED <<packagePaths, idx>>
    /\ UNCHANGED <<crFrame, tags, pending, calls, outcomes>>

Skip(kind) ==
    /\ outcomes' = Append(outcomes, [tag |-> tags[idx], kind |-> kind])
    /\ idx' = idx + 1
    /\ UNCHANGED <<pc, exitCode, fatal, pending>>

\* the body of for (const tag of tags) up to the createRelease call
CRTag ==
    /\ entry = "createReleases" /\ pc = "tag" /\ idx <= Len(tags)
    /\ LET tag == tags[idx]
           match == ParseTag(tag)
           found == FindPackage(packagePaths, match.name, match.version)
           log == packagePaths[found.index].changelog
       IN IF ~match.ok THEN Skip("skipFormat")
          ELSE IF found.kind = "throw"
               THEN Fatal("packageManifest") /\ UNCHANGED <<idx, pending, outcomes>>
          ELSE IF found.kind = "none" THEN Skip("skipNoMatch")
          ELSE IF ~log.exists
               THEN /\ pending' = Request(tag, match.name, match.version,
                                          DefaultNotes(match.name, match.version),
                                          found.index)
                    /\ pc' = "release"
                    /\ UNCHANGED <<exitCode, fatal, idx, outcomes>>
          ELSE IF ~log.readable
               THEN Fatal("changelog") /\ UNCHANGED <<idx, pending, outcomes>>
          ELSE /\ pending' = Request(tag, match.name, match.version,
                                     ExtractFromLines(log.lines, match.version),
                                     found.index)
               /\ pc' = "release"
               /\ UNCHANGED <<exitCode, fatal, idx, outcomes>>
    /\ UNCHANGED <<crFrame, tags, packagePaths, calls>>

\* await octokit.rest.repos.createRelease(...) and its then / catch
CRRelease ==
    /\ entry = "createReleases" /\ pc = "release"
    /\ \E resp \in Responses :
          /\ calls' = Append(calls, [request |-> pending, response |-> resp])
          /\ outcomes' = Append(outcomes,
                                [tag |-> tags[idx], kind |-> ReleaseOutcome(resp)])
    /\ idx' = idx + 1
    /\ pc' = "tag"
    /\ pending' = <<>>
    /\ UNCHANGED <<crFrame, exitCode, fatal, tags, packagePaths>>

\* the loop is over: createReleases returns and the process ends
CREnd ==
    /\ entry = "createReleases" /\ pc = "tag" /\ idx > Len(tags)
    /\ pc' = "done"
    /\ exitCode' = 0
    /\ UNCHANGED <<crFrame, fatal, relVars>>

-----------------------------------------------------------------------------
(* Tag enumeration: getAllTags (both variants) and getAllTagsAdvanced *)

Sha == "4f2a9c1"
OlderTags == << <<"v", "0", ".", "9", ".", "0">> >>

\* what `git tag --sort=...` lists: the tags at HEAD and the older ones
AllTagsListing == repoTags \o OlderTags

EmptyResult ==
    [currentCommit |-> "", sortOption |-> "", allTags |-> <<>>,
     tagsForCurrentCommit |-> <<>>, tagsWithCommits |-> <<>>]

NoOptions ==
    [sortBy |-> "version", filter |-> <<>>, limit |-> 0, includeCommits |-> FALSE]

\* --filter sources used here: none, ^v, and ( which new RegExp rejects
FilterInputs == { <<>>, <<"^", "v">>, <<"(">> }

OptionInputs ==
    [sortBy : {"version", "date", "alphabetical"},
     filter : FilterInputs,
     limit : {0, 1},
     includeCommits : BOOLEAN]

InitGetAllTags ==
    /\ entry \in {"getAllTags", "getAllTagsEsm"}
    /\ pc = IF entry = "getAllTags" THEN "allTags" ELSE "revParse"
    /\ repoTags \in TagListings
    /\ token = FALSE /\ rootManifest = [status |-> "missing", pkgs |-> <<>>]
    /\ options = NoOptions /\ failedQueries = {} /\ result = EmptyResult
    /\ FnIdle /\ ScanIdle /\ RelIdle /\ Running

InitGetAllTagsAdvanced ==
    /\ entry = "getAllTagsAdvanced" /\ pc = "revParse"
    /\ repoTags \in TagListings
    /\ token = FALSE /\ rootManifest = [status |-> "missing", pkgs |-> <<>>]
    /\ options \in OptionInputs /\ failedQueries = {} /\ result = EmptyResult
    /\ FnIdle /\ ScanIdle /\ RelIdle /\ Running

tagFrame == <<entry, arg, ret, scanVars, envVars, relVars, options>>

\* the query throws inside the try of getAllTags: the catch reports the
\* message and exits 1
QueryThrows(q) ==
    /\ failedQueries' = failedQueries \cup {q}
    /\ Fatal("git")
    /\ UNCHANGED result

\* get-tags.js: execSync('git tag --sort=-version:refname')
GTAllTags ==
    /\ entry = "getAllTags" /\ pc = "allTags"
    /\ \/ /\ result' = [result EXCEPT !.allTags = AllTagsListing,
                                      !.sortOption = "--sort=-version:refname"]
          /\ pc' = "revParse"
          /\ UNCHANGED <<exitCode, fatal, failedQueries>>
       \/ QueryThrows("allTags")
    /\ UNCHANGED tagFrame

\* execSync('git rev-parse HEAD')
GTRevParse ==
    /\ entry \in {"getAllTags", "getAllTagsEsm"} /\ pc = "revParse"
    /\ \/ /\ result' = [result EXCEPT !.currentCommit = Sha]
          /\ pc' = "pointsAt"
          /\ UNCHANGED <<exitCode, fatal, failedQueries>>
       \/ QueryThrows("revParse")
    /\ UNCHANGED tagFrame

\* execSync(`git tag --points-at ${currentCommit}`), then the result is
\* written out and returned
GTPointsAt ==
    /\ entry \in {"getAllTags", "getAllTagsEsm"} /\ pc = "pointsAt"
    /\ \/ /\ result' = [result EXCEPT !.tagsForCurrentCommit = repoTags]
          /\ pc' = "done"
          /\ exitCode' = 0
          /\ UNCHANGED <<fatal, failedQueries>>
       \/ QueryThrows("pointsAt")
    /\ UNCHANGED tagFrame

\* execCommand: try { return execSync(command).trim() } catch { return '' }
\* out is what the query prints when it works, failed whether it fails
execCommand(out, failed) == IF failed THEN <<>> ELSE out

SortOption(sortBy) ==
    IF sortBy = "date" THEN "--sort=-creatordate"
    ELSE IF sortBy = "alphabetical" THEN "--sort=refname"
    ELSE "--sort=-version:refname"

\* new RegExp(source) throws on an unbalanced group
RegExpOk(source) == \A k \in 1..Len(source) : source[k] # "("

\* regex.test(tag) for the literal sources above, anchored by a leading ^
RegExpTest(source, tag) ==
    IF Head(source) = "^" THEN StartsAt(tag, 1, Tail(source))
    ELSE Contains(tag, source)

SelectTags(ts, source) == SelectSeq(ts, LAMBDA t : RegExpTest(source, t))

\* const currentCommit = execCommand('git rev-parse HEAD')
ADVRevParse ==
    /\ entry = "getAllTagsAdvanced" /\ pc = "revParse"
    /\ \E failed \in BOOLEAN :
          LET out == execCommand(<<Sha>>, failed)
          IN /\ failedQueries' = IF failed THEN failedQueries \cup {"revParse"}
                                 ELSE failedQueries
             /\ result' = [result EXCEPT
                    !.currentCommit = IF out = <<>> THEN "" ELSE out[1]]
    /\ pc' = "allTags"
    /\ UNCHANGED <<tagFrame, exitCode, fatal>>

\* the all-tags query with its sort option, the filter and the limit
ADVAllTags ==
    /\ entry = "getAllTagsAdvanced" /\ pc = "allTags"
    /\ \E failed \in BOOLEAN :
          LET out == execCommand(AllTagsListing, failed)
              filtered == IF options.filter # <<>>
                          THEN SelectTags(out, options.filter) ELSE out
              limited == IF options.limit > 0 /\ options.limit < Len(filtered)
                         THEN SubSeq(filtered, 1, options.limit) ELSE filtered
          IN /\ failedQueries' = IF failed THEN failedQueries \cup {"allTags"}
                                 ELSE failedQueries
             /\ IF options.filter # <<>> /\ ~RegExpOk(options.filter)
                THEN Fatal("regex") /\ UNCHANGED result
                ELSE /\ result' = [result EXCEPT
                            !.allTags = limited,
                            !.sortOption = SortOption(options.sortBy)]
                     /\ pc' = "pointsAt"
                     /\ UNCHANGED <<exitCode, fatal>>
    /\ UNCHANGED tagFrame

\* const tagsForCurrentCommitOutput = execCommand(`git tag --points-at ...`)
ADVPointsAt ==
    /\ entry = "getAllTagsAdvanced" /\ pc = "pointsAt"
    /\ \E failed \in BOOLEAN :
          LET out == execCommand(repoTags, failed)
          IN /\ failedQueries' = IF failed THEN failedQueries \cup {"pointsAt"}
                                 ELSE failedQueries
             /\ result' = [result EXCEPT !.tagsForCurrentCommit = out]
    /\ pc' = "commits"
    /\ UNCHANGED <<tagFrame, exitCode, fatal>>

\* the includeCommits loop (the per-tag lookups work or fail together),
\* the return of the result, and the caller writing it out
ADVReturn ==
    /\ entry = "getAllTagsAdvanced" /\ pc = "commits"
    /\ \/ /\ ~options.includeCommits
          /\ UNCHANGED result
       \/ /\ options.includeCommits
          /\ \E failed \in BOOLEAN :
                result' = [result EXCEPT !.tagsWithCommits =
                    [k \in 1..Len(result.allTags) |->
                        [tag |-> result.allTags[k],
                         commit |-> IF failed THEN "" ELSE Sha]]]
    /\ pc' = "done"
    /\ exitCode' = 0
    /\ UNCHANGED <<tagFrame, fatal, failedQueries>>

Init ==
    \/ InitParse \/ InitIsPrerelease \/ InitExtract \/ InitCreateReleases
    \/ InitGetAllTags \/ InitGetAllTagsAdvanced

Next ==
    \/ CallParseTag \/ CallIsPrerelease \/ ExtractLine \/ ExtractReturn
    \/ CRImport \/ CRToken \/ CRRevParse \/ CRTagsAt \/ CRWorkspaces
    \/ CRTag \/ CRRelease \/ CREnd
    \/ GTAllTags \/ GTRevParse \/ GTPointsAt
    \/ ADVRevParse \/ ADVAllTags \/ ADVPointsAt \/ ADVReturn

Spec == Init /\ [][Next]_vars

-----------------------------------------------------------------------------
(* Properties *)

Min(S) == CHOOSE x \in S : \A y \in S : x <= y
Max(S) == CHOOSE x \in S : \A y \in S : x >= y
AtPositions(tag) == {k \in 1..Len(tag) : tag[k] = "@"}
LowerStr(s) == [k \in 1..Len(s) |-> ToLower(s[k])]

InCreateReleases == entry = "createReleases"
InExtract == entry = "extractChangelogForVersion"

\* the manifest at position p declares exactly this name and version
Declares(p, name, version) ==
    /\ packagePaths[p].manifestOk
    /\ packagePaths[p].name = name
    /\ packagePaths[p].version = version

Matched(tag) ==
    /\ ParseTag(tag).ok
    /\ \E p \in 1..Len(packagePaths) :
          Declares(p, ParseTag(tag).name, ParseTag(tag).version)

CalledFor(tag) == \E c \in 1..Len(calls) : calls[c].request.tag_name = tag

\* C1: createRelease is attempted for a tag only if the tag parses as
\* name@version and some discovered manifest declares exactly that name and
\* that version; a tag that does not parse is skipped as such, a tag that
\* parses and matches no manifest is skipped as unmatched, and neither
\* causes a createRelease call.
C1_ReleaseOnlyForMatchedTag ==
    InCreateReleases =>
        /\ \A c \in 1..Len(calls) : Matched(calls[c].request.tag_name)
        /\ \A k \in 1..Len(tags) :
              ~Matched(tags[k]) =>
                  /\ ~CalledFor(tags[k])
                  /\ k < idx =>
                        outcomes[k] =
                            [tag |-> tags[k],
                             kind |-> IF ParseTag(tags[k]).ok THEN "skipNoMatch"
                                      ELSE "skipFormat"]

\* a run that skipped one tag as unmatched and called createRelease for another
C1_Witness ==
    /\ InCreateReleases
    /\ calls # <<>>
    /\ \E k \in 1..Len(outcomes) : outcomes[k].kind = "skipNoMatch"

\* C2 (as claimed): once the setup succeeded, the run ends only after every
\* tag of the listing has reached a per-tag outcome.
C2_EveryTagReachesOutcome ==
    (InCreateReleases /\ pc = "done" /\ idx >= 1) =>
        /\ Len(outcomes) = Len(tags)
        /\ \A k \in 1..Len(tags) : outcomes[k].tag = tags[k]

ExpectedOutcome(resp) ==
    IF resp.ok THEN "created"
    ELSE IF resp.status = 422 /\ resp.alreadyExists THEN "warning"
    ELSE "error"

\* C3: a failed createRelease is handled inside its tag's iteration: the
\* conflict response (422, already_exists) is logged as a warning and any
\* other failure as an error for that tag; createRelease is called at most
\* once per tag; the loop has moved past the tag; and the process exits 1
\* only for a failure that reached the top-level handler (never for a
\* createRelease failure), so a run without one exits 0.
C3_ReleaseFailureIsPerTag ==
    InCreateReleases =>
        /\ \A c \in 1..Len(calls) :
              \E k \in 1..Len(tags) :
                  /\ tags[k] = calls[c].request.tag_name
                  /\ k < idx
                  /\ outcomes[k] = [tag |-> tags[k],
                                    kind |-> ExpectedOutcome(calls[c].response)]
        /\ \A c, d \in 1..Len(calls) :
              calls[c].request.tag_name = calls[d].request.tag_name => c = d
        /\ exitCode = 1 =>
              fatal \in {"import", "token", "git", "rootManifest",
                         "packageManifest", "changelog"}
        /\ (pc = "done" /\ fatal = "") => exitCode = 0
        /\ (pc = "done" /\ fatal = "" /\ idx >= 1) => Len(outcomes) = Len(tags)

\* a conflict for the first tag, then the second tag processed, exit 0
C3_Witness ==
    /\ InCreateReleases /\ pc = "done" /\ exitCode = 0
    /\ Len(outcomes) = 2
    /\ outcomes[1].kind = "warning"
    /\ \E c \in 1..Len(calls) : ~calls[c].response.ok

\* the version text of a heading line: what follows the marker and the
\* whitespace, without the optional brackets
HeadingVersionText(line) ==
    LET rest == TrimStart(SubSeq(line, 3, Len(line)))
    IN IF rest # <<>> /\ Head(rest) = "[" /\ rest[Len(rest)] = "]"
       THEN SubSeq(rest, 2, Len(rest) - 1)
       ELSE rest

\* C4 (as claimed): collection opens only on a heading line whose version
\* text is exactly the target version.
C4_OpensOnlyOnExactVersion ==
    InExtract =>
        \A k \in opened :
            /\ NextHeader(arg.lines[k])
            /\ HeadingVersionText(arg.lines[k]) = arg.version

\* C5 (as claimed): once collection has opened, the first later line that
\* matches the generic heading pattern closes it, and the output is the
\* trimmed join of the lines strictly between the two (the fallback when
\* that text is empty).
C5_SectionEndsAtNextHeading ==
    (InExtract /\ pc = "done" /\ opened # {}) =>
        LET first == Min(opened)
            later == {k \in (first + 1)..Len(arg.lines) : NextHeader(arg.lines[k])}
            last == IF later = {} THEN Len(arg.lines) ELSE Min(later) - 1
            text == Trim(JoinLines(SubSeq(arg.lines, first + 1, last)))
        IN ret = IF text # <<>> THEN text ELSE ReleasePrefix \o arg.version

NoMatchingHeading(lines, version) ==
    \A k \in 1..Len(lines) : ~VersionHeader(lines[k], version)

CallVersion(c) == ParseTag(calls[c].request.tag_name).version
CallName(c) == ParseTag(calls[c].request.tag_name).name
CallChangelog(c) == packagePaths[calls[c].request.matchingPackage].changelog

\* C6 (as claimed): without a matching heading or with an empty section the
\* notes are a non-empty fallback containing the version, and without any
\* changelog document the notes are that same string.
C6_SameFallbackWithoutChangelog ==
    /\ (InExtract /\ pc = "done"
          /\ (NoMatchingHeading(arg.lines, arg.version)
                 \/ Trim(JoinLines(releaseNotes)) = <<>>)) =>
          ret = ReleasePrefix \o arg.version
    /\ InCreateReleases =>
          \A c \in 1..Len(calls) :
              ~CallChangelog(c).exists =>
                  calls[c].request.body = ReleasePrefix \o CallVersion(c)

\* C6 (amended): without a matching heading or with an empty section the
\* notes are the non-empty string "Release <version>"; the same holds when
\* the changelog is read inside createReleases; without any changelog
\* document the notes are another non-empty string, "Release <version> of
\* <package>", which also contains the version.
C6_FallbackNamesVersion ==
    /\ (InExtract /\ pc = "done"
          /\ (NoMatchingHeading(arg.lines, arg.version)
                 \/ Trim(JoinLines(releaseNotes)) = <<>>)) =>
          /\ ret = ReleasePrefix \o arg.version
          /\ ret # <<>>
          /\ Contains(ret, arg.version)
    /\ InCreateReleases =>
          \A c \in 1..Len(calls) :
              LET body == calls[c].request.body
                  log == CallChangelog(c)
              IN /\ body # <<>>
                 /\ ~log.exists =>
                       /\ body = ReleasePrefix \o CallVersion(c)
                                    \o <<" ", "o", "f", " ">> \o CallName(c)
                       /\ Contains(body, CallVersion(c))
                 /\ (log.exists /\ NoMatchingHeading(log.lines, CallVersion(c))) =>
                       body = ReleasePrefix \o CallVersion(c)

\* a release sent for a package that has no changelog document
C6_Witness ==
    /\ InCreateReleases
    /\ \E c \in 1..Len(calls) : ~CallChangelog(c).exists

\* the version contains a marker right after a hyphen, letters compared
\* without regard to case
HasMarker(version) ==
    \E m \in Markers : Contains(LowerStr(version), <<"-">> \o m)

\* C7: isPrerelease(version) is true exactly when the version contains,
\* case-insensitively, alpha, beta, rc or pre right after a hyphen (so
\* 1.0.0-rc.1, 2.0.0-beta.1 and 2.0.0-rc1 are prereleases and 1.0.0 is
\* not), and the prerelease flag of every createRelease request is that
\* value for the tag's version.
C7_PrereleaseIffMarker ==
    /\ (entry = "isPrerelease" /\ pc = "done") => ret = HasMarker(arg)
    /\ InCreateReleases =>
          \A c \in 1..Len(calls) :
              calls[c].request.prerelease = HasMarker(CallVersion(c))
    /\ isPrerelease(VRC1)
    /\ isPrerelease(<<"2", ".", "0", ".", "0", "-", "b", "e", "t", "a", ".", "1">>)
    /\ isPrerelease(<<"2", ".", "0", ".", "0", "-", "r", "c", "1">>)
    /\ ~isPrerelease(V100)

\* isPrerelease has answered true for a version with an upper-case marker
C7_Witness ==
    /\ entry = "isPrerelease" /\ pc = "done"
    /\ ret = TRUE
    /\ Contains(arg, <<"-", "R", "C">>)

\* C8 (as claimed): an accepted tag is split at its final '@', so the
\* version holds no '@' and name + '@' + version is the tag.
C8_SplitsAtFinalAt ==
    (entry = "parseTag" /\ pc = "done" /\ ret.ok) =>
        LET k == Max(AtPositions(arg))
        IN /\ ret.name = SubSeq(arg, 1, k - 1)
           /\ ret.version = SubSeq(arg, k + 1, Len(arg))
           /\ AtPositions(ret.version) = {}
           /\ ret.name \o At \o ret.version = arg

\* C8 (amended): an accepted tag is split at its last '@' that has a
\* character after it: name + '@' + version is the tag, both parts are
\* non-empty, and the version holds no '@' except possibly as its last
\* character; a tag that does not end in '@' is split at its final '@' and
\* its version holds no '@'.
C8_SplitsAtLastAtBeforeText ==
    (entry = "parseTag" /\ pc = "done" /\ ret.ok) =>
        /\ ret.name \o At \o ret.version = arg
        /\ ret.name # <<>>
        /\ ret.version # <<>>
        /\ AtPositions(ret.version) \subseteq {Len(ret.version)}
        /\ arg[Len(arg)] # "@" =>
              /\ Len(ret.name) + 1 = Max(AtPositions(arg))
              /\ AtPositions(ret.version) = {}

\* a tag with several '@' that does not end in '@' has been parsed
C8_Witness ==
    /\ entry = "parseTag" /\ pc = "done"
    /\ ret.ok
    /\ Cardinality(AtPositions(arg)) >= 2
    /\ arg[Len(arg)] # "@"

\* C9 (as claimed): in every tag-enumeration entry point a failed
\* version-control query ends the process with exit status 1.
C9_FailedQueryIsFatal ==
    (entry \in {"getAllTags", "getAllTagsEsm", "getAllTagsAdvanced"}
        /\ pc = "done" /\ failedQueries # {}) => exitCode = 1

\* C10 (as claimed): a missing credential, or a missing or malformed root
\* manifest, ends the run with a non-zero status and without any release,
\* whatever tags point at the current commit.
C10_SetupFailureIsFatal ==
    (InCreateReleases /\ (~token \/ rootManifest.status # "ok")) =>
        /\ calls = <<>>
        /\ pc = "done" => exitCode = 1

\* C10 (amended): a missing credential, or a missing or malformed root
\* manifest in a run where at least one tag points at the current commit,
\* ends the run with a non-zero status; no release is created in either
\* case, nor with a bad root manifest and no tag.
C10_SetupFailureIsFatalWithTags ==
    (InCreateReleases /\ (~token \/ rootManifest.status # "ok")) =>
        /\ calls = <<>>
        /\ (pc = "done" /\ (~token \/ repoTags # <<>>)) => exitCode = 1

\* the run of a tagged commit stopped at the malformed root manifest
C10_Witness ==
    /\ InCreateReleases /\ pc = "done"
    /\ token
    /\ rootManifest.status = "malformed"
    /\ repoTags # <<>>
    /\ fatal = "rootManifest"

====
